---------------------------- MODULE Spec2Model ----------------------------
(***************************************************************************)
(* Model of the technical-indicator evaluators of                          *)
(* datafusion-functions-financial: the batch partition evaluators          *)
(* (SMA, EMA, RSI, MACD) of src/src/functions and the streaming            *)
(* calculator of src/src/streaming.rs.                                     *)
(*                                                                         *)
(* f64 values are modelled as exact rationals n/d in lowest terms,         *)
(* extended with the IEEE specials +inf = 1/0, -inf = -1/0 and NaN = 0/0.  *)
(* Rounding and the sign of zero are not modelled.                         *)
(*                                                                         *)
(* Option<T> is modelled as a sequence: None = <<>>, Some(x) = <<x>>.      *)
(***************************************************************************)
EXTENDS Integers, Sequences, FiniteSets, TLC

VARIABLES ev, last, reused, fed, ticks

vars == <<ev, last, reused, fed, ticks>>

(***************************************************************************)
(* Bounds of the model.                                                    *)
(***************************************************************************)
MaxLen == 3

MaxWindow == 3

MaxMacdRows == 3

MaxTicks == 5

(***************************************************************************)
(* f64 arithmetic.                                                         *)
(***************************************************************************)
Abs(x) == IF x < 0 THEN -x ELSE x

Sign(x) == IF x < 0 THEN -1 ELSE IF x > 0 THEN 1 ELSE 0

RECURSIVE Gcd(_, _)
Gcd(a, b) == IF b = 0 THEN a ELSE Gcd(b, a % b)

NormG(n, d, g) ==
    IF d < 0 THEN [n |-> (-n) \div g, d |-> (-d) \div g]
    ELSE [n |-> n \div g, d |-> d \div g]

\* The value n/d as an f64: lowest terms, d > 0; d = 0 gives a special.
Norm(n, d) ==
    IF d = 0 THEN [n |-> Sign(n), d |-> 0] ELSE NormG(n, d, Gcd(Abs(n), Abs(d)))

F(i) == [n |-> i, d |-> 1]

NaN == [n |-> 0, d |-> 0]

IsNaN(x) == x.d = 0 /\ x.n = 0

IsInf(x) == x.d = 0 /\ x.n # 0

FNeg(a) == [n |-> -a.n, d |-> a.d]

AddG(a, b, g) == Norm(a.n * (b.d \div g) + b.n * (a.d \div g), (a.d \div g) * b.d)

FAdd(a, b) ==
    IF IsNaN(a) \/ IsNaN(b) THEN NaN
    ELSE IF IsInf(a) THEN (IF IsInf(b) /\ b.n # a.n THEN NaN ELSE a)
    ELSE IF IsInf(b) THEN b
    ELSE AddG(a, b, Gcd(a.d, b.d))

FSub(a, b) == FAdd(a, FNeg(b))

MulG(a, b, g1, g2) ==
    Norm((a.n \div g1) * (b.n \div g2), (a.d \div g2) * (b.d \div g1))

FMul(a, b) ==
    IF IsNaN(a) \/ IsNaN(b) THEN NaN
    ELSE IF IsInf(a) \/ IsInf(b)
         THEN [n |-> Sign(a.n) * Sign(b.n), d |-> 0]
    ELSE IF a.n = 0 \/ b.n = 0 THEN [n |-> 0, d |-> 1]
    ELSE MulG(a, b, Gcd(Abs(a.n), b.d), Gcd(Abs(b.n), a.d))

FDiv(a, b) ==
    IF IsNaN(a) \/ IsNaN(b) THEN NaN
    ELSE IF IsInf(a)
         THEN (IF IsInf(b) THEN NaN
               ELSE [n |-> a.n * (IF b.n < 0 THEN -1 ELSE 1), d |-> 0])
    ELSE IF IsInf(b) THEN [n |-> 0, d |-> 1]
    ELSE IF b.n = 0 THEN [n |-> Sign(a.n), d |-> 0]
    ELSE FMul(a, [n |-> Sign(b.n) * b.d, d |-> Abs(b.n)])

\* a == b on f64: NaN equals nothing.
FEq(a, b) == ~IsNaN(a) /\ ~IsNaN(b) /\ a = b

\* a > b on f64: false when either side is NaN.
FGt(a, b) ==
    /\ ~IsNaN(a)
    /\ ~IsNaN(b)
    /\ a # b
    /\ IF IsInf(a) THEN a.n > 0
       ELSE IF IsInf(b) THEN b.n < 0
       ELSE a.n * b.d > b.n * a.d

FLt(a, b) == FGt(b, a)

\* f64::abs
FAbs(a) == [n |-> Abs(a.n), d |-> a.d]

\* f64::min: the other operand when one is NaN.
FMin(a, b) == IF IsNaN(a) THEN b ELSE IF IsNaN(b) THEN a ELSE IF FLt(b, a) THEN b ELSE a

\* Iterator::sum::<f64>() over a sequence, left to right from 0.0.
RECURSIVE FSum(_)
FSum(s) == IF s = <<>> THEN F(0) ELSE FAdd(FSum(SubSeq(s, 1, Len(s) - 1)), s[Len(s)])

None == <<>>

Some(x) == <<x>>

(***************************************************************************)
(* Arrow arrays.  An array has a data type and slots; a slot has a         *)
(* validity bit and a raw value.  The raw value of a null slot is          *)
(* whatever the buffer holds.                                              *)
(***************************************************************************)
Slot(v, r) == [valid |-> v, raw |-> r]

\* A slot of an Int64Array.
IntSlot(v, r) == [valid |-> v, int |-> r]

Float64Array(slots) == [dtype |-> "Float64", slots |-> slots]

Int64Array(slots) == [dtype |-> "Int64", slots |-> slots]

Utf8Array == [dtype |-> "Utf8", slots |-> <<>>]

\* Float64Array::from(Vec<Option<f64>>): None becomes a null slot whose raw
\* value is the default 0.0.
ArrayFrom(result) ==
    Float64Array([i \in 1..Len(result) |->
                    IF result[i] = None THEN Slot(FALSE, F(0))
                    ELSE Slot(TRUE, result[i][1])])

\* PrimitiveArray::value(i): the raw value of slot i, validity not consulted.
ArrayValue(arr, i) == arr.slots[i + 1].raw

\* `value_array.value(i).into()` with target Option<f64>: From<T> for Option<T>.
ValueInto(arr, i) == Some(ArrayValue(arr, i))

\* find_map that keeps the last non-null entry instead of the first.
FindMap_last(slots, i) ==
    IF \A j \in i..Len(slots) : ~slots[j].valid THEN None
    ELSE Some(slots[CHOOSE j \in i..Len(slots) :
                        slots[j].valid /\ \A k \in (j + 1)..Len(slots) : ~slots[k].valid].int)

\* window_size_array.iter().find_map(|x| x): the first non-null entry.
RECURSIVE FindMap(_, _)
FindMap(slots, i) ==
    IF i > Len(slots) THEN None
    ELSE IF slots[i].valid THEN Some(slots[i].int)
    ELSE FindMap(slots, i + 1)

Ok(out) == [status |-> "Ok", out |-> out, msg |-> ""]

Err(msg) == [status |-> "Err", out |-> Float64Array(<<>>), msg |-> msg]

\* Index out of bounds in PrimitiveArray::value.
Panic == [status |-> "Panic", out |-> Float64Array(<<>>), msg |-> "index out of bounds"]

\* What evaluate_all leaves and returns: the evaluator and the Result.
Failed(self, msg) == [st |-> self, res |-> Err(msg)]

\* The accumulator of a row loop: the evaluator and the result vector.
Acc(self, result) == [st |-> self, result |-> result]

Returned(acc) == [st |-> acc.st, res |-> Ok(ArrayFrom(acc.result))]

Push(acc, self, opt) == Acc(self, Append(acc.result, opt))

(***************************************************************************)
(* SMA: src/src/functions/sma.rs                                           *)
(***************************************************************************)
Sma_new == [kind |-> "sma", values |-> <<>>, window_size |-> 0]

\* Sma_window that averages the whole buffer instead of its last window.
Sma_window_whole(vals, window_size) ==
    IF Len(vals) >= window_size THEN Some(FDiv(FSum(vals), F(Len(vals)))) ELSE None

\* Lines 106-113 on the buffer vals after the push of line 104.
Sma_window(vals, window_size) ==
    IF Len(vals) >= window_size
    THEN Some(FDiv(FSum(SubSeq(vals, Len(vals) - window_size + 1, Len(vals))),
                   F(window_size)))
    ELSE None

Sma_push(acc, vals) ==
    Push(acc, [acc.st EXCEPT !.values = vals], Sma_window(vals, acc.st.window_size))

Sma_value(acc, opt) ==
    IF opt # None THEN Sma_push(acc, Append(acc.st.values, opt[1]))
    ELSE Push(acc, acc.st, None)

\* One iteration of the row loop, lines 103-116.
Sma_row(acc, value_array, i) == Sma_value(acc, ValueInto(value_array, i))

RECURSIVE Sma_loop(_, _, _, _)
Sma_loop(acc, value_array, i, num_rows) ==
    IF i >= num_rows THEN Returned(acc)
    ELSE IF i >= Len(value_array.slots) THEN [st |-> acc.st, res |-> Panic]
    ELSE Sma_loop(Sma_row(acc, value_array, i), value_array, i + 1, num_rows)

\* Lines 92-100: the window size is set and the buffer cleared.
Sma_reset(self, w) == [self EXCEPT !.window_size = w, !.values = <<>>]

\* Sma_start that takes window size 0 where the column has no window size.
Sma_start_default(self, values, num_rows, w) ==
    Sma_loop(Acc(Sma_reset(self, IF w = None THEN 0 ELSE w[1]), <<>>),
             values[1], 0, num_rows)

Sma_start(self, values, num_rows, w) ==
    IF w = None THEN Failed(self, "Window size cannot be null")
    ELSE Sma_loop(Acc(Sma_reset(self, w[1]), <<>>), values[1], 0, num_rows)

Sma_evaluate_all(self, values, num_rows) ==
    IF Len(values) # 2
    THEN Failed(self, "SMA function requires exactly 2 arguments: value and window_size")
    ELSE IF values[1].dtype # "Float64"
    THEN Failed(self, "First argument must be Float64")
    ELSE IF values[2].dtype # "Int64"
    THEN Failed(self, "Second argument must be Int64")
    ELSE Sma_start(self, values, num_rows, FindMap(values[2].slots, 1))

(***************************************************************************)
(* EMA: src/src/functions/ema.rs                                           *)
(***************************************************************************)
Ema_new == [kind |-> "ema", window_size |-> 0, alpha |-> F(0), current_ema |-> None]

\* EMA = alpha * current_value + (1 - alpha) * previous_ema
EmaFormula(alpha, value, prev_ema) ==
    FAdd(FMul(alpha, value), FMul(FSub(F(1), alpha), prev_ema))

\* EmaAlpha with Wilder's factor 1/N instead of 2/(N+1).
EmaAlpha_wilder(window_size) == FDiv(F(1), F(window_size))

\* alpha = 2 / (N + 1)
EmaAlpha(window_size) == FDiv(F(2), FAdd(F(window_size), F(1)))

Ema_set(acc, ema) == Push(acc, [acc.st EXCEPT !.current_ema = Some(ema)], Some(ema))

Ema_value(acc, opt) ==
    IF opt # None
    THEN IF acc.st.current_ema = None THEN Ema_set(acc, opt[1])
         ELSE Ema_set(acc, EmaFormula(acc.st.alpha, opt[1], acc.st.current_ema[1]))
    ELSE Push(acc, acc.st, None)

\* One iteration of the row loop, lines 108-124.
Ema_row(acc, value_array, i) == Ema_value(acc, ValueInto(value_array, i))

RECURSIVE Ema_loop(_, _, _, _)
Ema_loop(acc, value_array, i, num_rows) ==
    IF i >= num_rows THEN Returned(acc)
    ELSE IF i >= Len(value_array.slots) THEN [st |-> acc.st, res |-> Panic]
    ELSE Ema_loop(Ema_row(acc, value_array, i), value_array, i + 1, num_rows)

\* Lines 94-105.
Ema_reset(self, w) ==
    [self EXCEPT !.window_size = w, !.alpha = EmaAlpha(w), !.current_ema = None]

Ema_start(self, values, num_rows, w) ==
    IF w = None THEN Failed(self, "Window size cannot be null")
    ELSE Ema_loop(Acc(Ema_reset(self, w[1]), <<>>), values[1], 0, num_rows)

Ema_evaluate_all(self, values, num_rows) ==
    IF Len(values) # 2
    THEN Failed(self, "EMA function requires exactly 2 arguments: value and window_size")
    ELSE IF values[1].dtype # "Float64"
    THEN Failed(self, "First argument must be Float64")
    ELSE IF values[2].dtype # "Int64"
    THEN Failed(self, "Second argument must be Int64")
    ELSE Ema_start(self, values, num_rows, FindMap(values[2].slots, 1))

(***************************************************************************)
(* RSI: src/src/functions/rsi.rs                                           *)
(***************************************************************************)
Rsi_new ==
    [kind |-> "rsi", window_size |-> 0, values |-> <<>>, gains |-> <<>>,
     losses |-> <<>>, avg_gain |-> F(0), avg_loss |-> F(0)]

\* 100.0 - (100.0 / (1.0 + rs))
RsiOfRs(rs) == FSub(F(100), FDiv(F(100), FAdd(F(1), rs)))

\* Rsi_calculate_rsi without the zero test of line 73.
Rsi_calculate_rsi_unguarded(avg_gain, avg_loss) == RsiOfRs(FDiv(avg_gain, avg_loss))

Rsi_calculate_rsi(avg_gain, avg_loss) ==
    IF FEq(avg_loss, F(0)) THEN F(100) ELSE RsiOfRs(FDiv(avg_gain, avg_loss))

\* The divisors of the two divisions calculate_rsi performs on these arguments.
Rsi_calculate_rsi_divisors(avg_gain, avg_loss) ==
    IF FEq(avg_loss, F(0)) THEN {}
    ELSE {avg_loss, FAdd(F(1), FDiv(avg_gain, avg_loss))}

Gain(change) == IF FGt(change, F(0)) THEN change ELSE F(0)

\* Loss without the negation: a fall is recorded as a negative loss.
Loss_signed(change) == IF FLt(change, F(0)) THEN change ELSE F(0)

Loss(change) == IF FLt(change, F(0)) THEN FNeg(change) ELSE F(0)

\* (avg * (1.0 - alpha)) + (x * alpha)
Smooth(avg, x, alpha) == FAdd(FMul(avg, FSub(F(1), alpha)), FMul(x, alpha))

\* Wilder with the EMA factor 2/(N+1) instead of 1/N.
Wilder_ema(avg, x, window_size) ==
    Smooth(avg, x, FDiv(F(2), FAdd(F(window_size), F(1))))

\* Wilder smoothing, alpha = 1.0 / window_size
Wilder(avg, x, window_size) == Smooth(avg, x, FDiv(F(1), F(window_size)))

\* sum / window_size
Mean(xs, window_size) == FDiv(FSum(xs), F(window_size))

\* Lines 157-158.
Rsi_emit(acc, self) ==
    Push(acc, self, Some(Rsi_calculate_rsi(self.avg_gain, self.avg_loss)))

\* Lines 140-158 on the evaluator s2 after the pushes of lines 137-138.
Rsi_average(acc, s2, gain, loss) ==
    IF Len(s2.gains) < s2.window_size THEN Push(acc, s2, None)
    ELSE IF Len(s2.gains) = s2.window_size
    THEN Rsi_emit(acc, [s2 EXCEPT !.avg_gain = Mean(s2.gains, s2.window_size),
                                  !.avg_loss = Mean(s2.losses, s2.window_size)])
    ELSE Rsi_emit(acc, [s2 EXCEPT !.avg_gain = Wilder(@, gain, s2.window_size),
                                  !.avg_loss = Wilder(@, loss, s2.window_size)])

\* Lines 134-138.
Rsi_change(acc, s1, change) ==
    Rsi_average(acc,
                [s1 EXCEPT !.gains = Append(@, Gain(change)),
                           !.losses = Append(@, Loss(change))],
                Gain(change), Loss(change))

\* Rsi_pushed whose first-value branch continues without line 126's push.
Rsi_pushed_skip(acc, s1, current_value) ==
    IF Len(s1.values) = 1 THEN Acc(s1, acc.result)
    ELSE Rsi_change(acc, s1, FSub(current_value, s1.values[Len(s1.values) - 1]))

\* Lines 124-132 on the evaluator s1 after the push of line 122.
Rsi_pushed(acc, s1, current_value) ==
    IF Len(s1.values) = 1 THEN Push(acc, s1, None)
    ELSE Rsi_change(acc, s1, FSub(current_value, s1.values[Len(s1.values) - 1]))

Rsi_value(acc, opt) ==
    IF opt # None
    THEN Rsi_pushed(acc, [acc.st EXCEPT !.values = Append(@, opt[1])], opt[1])
    ELSE Push(acc, acc.st, None)

\* One iteration of the row loop, lines 121-161.
Rsi_row(acc, value_array, i) == Rsi_value(acc, ValueInto(value_array, i))

RECURSIVE Rsi_loop(_, _, _, _)
Rsi_loop(acc, value_array, i, num_rows) ==
    IF i >= num_rows THEN Returned(acc)
    ELSE IF i >= Len(value_array.slots) THEN [st |-> acc.st, res |-> Panic]
    ELSE Rsi_loop(Rsi_row(acc, value_array, i), value_array, i + 1, num_rows)

\* Rsi_reset without the clears of lines 117-118.
Rsi_reset_keep(self, w) == [self EXCEPT !.window_size = w, !.values = <<>>]

\* Lines 108-118: avg_gain and avg_loss are not touched.
Rsi_reset(self, w) ==
    [self EXCEPT !.window_size = w, !.values = <<>>, !.gains = <<>>, !.losses = <<>>]

\* Rsi_start that clears the buffers before it looks at the window size.
Rsi_start_early(self, values, num_rows, w) ==
    IF w = None THEN Failed(Rsi_reset(self, 0), "Window size cannot be null")
    ELSE Rsi_loop(Acc(Rsi_reset(self, w[1]), <<>>), values[1], 0, num_rows)

Rsi_start(self, values, num_rows, w) ==
    IF w = None THEN Failed(self, "Window size cannot be null")
    ELSE Rsi_loop(Acc(Rsi_reset(self, w[1]), <<>>), values[1], 0, num_rows)

Rsi_evaluate_all(self, values, num_rows) ==
    IF Len(values) # 2
    THEN Failed(self, "RSI function requires exactly 2 arguments: value and window_size")
    ELSE IF values[1].dtype # "Float64"
    THEN Failed(self, "First argument must be Float64")
    ELSE IF values[2].dtype # "Int64"
    THEN Failed(self, "Second argument must be Int64")
    ELSE Rsi_start(self, values, num_rows, FindMap(values[2].slots, 1))

(***************************************************************************)
(* MACD: src/src/functions/macd.rs                                         *)
(***************************************************************************)
Macd_new ==
    [kind |-> "macd", ema12 |-> None, ema26 |-> None,
     alpha12 |-> FDiv(F(2), F(13)), alpha26 |-> FDiv(F(2), F(27))]

\* One EMA of update_ema: lines 70-73 and 76-79.
Macd_ema(prev, alpha, value) ==
    IF prev = None THEN Some(value) ELSE Some(EmaFormula(alpha, value, prev[1]))

\* Macd_line with the operands of line 83 exchanged.
Macd_line_swapped(ema12, ema26) ==
    IF ema12 # None /\ ema26 # None THEN Some(FSub(ema26[1], ema12[1])) ELSE None

\* Lines 82-85.
Macd_line(ema12, ema26) ==
    IF ema12 # None /\ ema26 # None THEN Some(FSub(ema12[1], ema26[1])) ELSE None

Macd_updated(acc, self) == Push(acc, self, Macd_line(self.ema12, self.ema26))

\* update_ema(value) and the push of its return value.
Macd_update_ema(acc, value) ==
    Macd_updated(acc, [acc.st EXCEPT
                         !.ema12 = Macd_ema(@, acc.st.alpha12, value),
                         !.ema26 = Macd_ema(@, acc.st.alpha26, value)])

Macd_value(acc, opt) ==
    IF opt # None THEN Macd_update_ema(acc, opt[1]) ELSE Push(acc, acc.st, None)

\* One iteration of the row loop, lines 111-116.
Macd_row(acc, value_array, i) == Macd_value(acc, ValueInto(value_array, i))

RECURSIVE Macd_loop(_, _, _, _)
Macd_loop(acc, value_array, i, num_rows) ==
    IF i >= num_rows THEN Returned(acc)
    ELSE IF i >= Len(value_array.slots) THEN [st |-> acc.st, res |-> Panic]
    ELSE Macd_loop(Macd_row(acc, value_array, i), value_array, i + 1, num_rows)

Macd_evaluate_all(self, values, num_rows) ==
    IF Len(values) # 1
    THEN Failed(self, "MACD function requires exactly 1 argument: value")
    ELSE IF values[1].dtype # "Float64"
    THEN Failed(self, "Argument must be Float64")
    ELSE Macd_loop(Acc(self, <<>>), values[1], 0, num_rows)

(***************************************************************************)
(* Streaming calculator: src/src/streaming.rs                              *)
(***************************************************************************)
Streaming_new(window_size) ==
    [kind |-> "stream", window_size |-> window_size, prices |-> <<>>,
     volumes |-> <<>>, ema_value |-> None, rsi_gains |-> <<>>,
     rsi_losses |-> <<>>, rsi_avg_gain |-> F(0), rsi_avg_loss |-> F(0)]

\* Sum of a VecDeque<u64>.
RECURSIVE USum(_)
USum(s) == IF s = <<>> THEN 0 ELSE USum(Tail(s)) + Head(s)

\* What a calculate_* method leaves and returns.
Ret(self, ret) == [st |-> self, ret |-> ret]

\* Streaming_push that drops the new tick, not the oldest, when the window is full.
Streaming_push_newest(self, tick) ==
    IF Len(self.prices) + 1 > self.window_size THEN self
    ELSE [self EXCEPT !.prices = Append(@, tick.price),
                      !.volumes = Append(@, tick.volume)]

\* Lines 58-65: push, then pop the front when the window is exceeded.
Streaming_push(self, tick) ==
    IF Len(self.prices) + 1 > self.window_size
    THEN [self EXCEPT !.prices = Tail(Append(@, tick.price)),
                      !.volumes = Tail(Append(@, tick.volume))]
    ELSE [self EXCEPT !.prices = Append(@, tick.price),
                      !.volumes = Append(@, tick.volume)]

\* Streaming_calculate_sma without the warm-up test of lines 87-89.
Streaming_calculate_sma_early(self) ==
    Some(FDiv(FSum(self.prices), F(Len(self.prices))))

Streaming_calculate_sma(self) ==
    IF Len(self.prices) < self.window_size THEN None
    ELSE Some(FDiv(FSum(self.prices), F(Len(self.prices))))

Streaming_ema_set(self, ema) == Ret([self EXCEPT !.ema_value = Some(ema)], Some(ema))

Streaming_calculate_ema(self, current_price) ==
    IF self.ema_value = None THEN Streaming_ema_set(self, current_price)
    ELSE Streaming_ema_set(self, EmaFormula(EmaAlpha(self.window_size), current_price,
                                            self.ema_value[1]))

\* Lines 145-150: the RSI of the running averages.
Streaming_rsi_value(avg_gain, avg_loss) ==
    IF FEq(avg_loss, F(0)) THEN F(100) ELSE RsiOfRs(FDiv(avg_gain, avg_loss))

\* The divisors of the two divisions of lines 148-149 on these arguments.
Streaming_rsi_divisors(avg_gain, avg_loss) ==
    IF FEq(avg_loss, F(0)) THEN {}
    ELSE {avg_loss, FAdd(F(1), FDiv(avg_gain, avg_loss))}

Streaming_rsi_emit(self) ==
    Ret(self, Some(Streaming_rsi_value(self.rsi_avg_gain, self.rsi_avg_loss)))

\* Lines 130-150 on the calculator s1 after lines 122-128.
Streaming_rsi_average(s1, gain, loss) ==
    IF Len(s1.rsi_gains) < s1.window_size THEN Ret(s1, None)
    ELSE IF Len(s1.rsi_gains) = s1.window_size /\ FEq(s1.rsi_avg_gain, F(0))
    THEN Streaming_rsi_emit(
             [s1 EXCEPT !.rsi_avg_gain = Mean(s1.rsi_gains, s1.window_size),
                        !.rsi_avg_loss = Mean(s1.rsi_losses, s1.window_size)])
    ELSE Streaming_rsi_emit(
             [s1 EXCEPT !.rsi_avg_gain = Wilder(@, gain, s1.window_size),
                        !.rsi_avg_loss = Wilder(@, loss, s1.window_size)])

\* Lines 122-128.
Streaming_rsi_push(self, gain, loss) ==
    IF Len(self.rsi_gains) + 1 > self.window_size
    THEN [self EXCEPT !.rsi_gains = Tail(Append(@, gain)),
                      !.rsi_losses = Tail(Append(@, loss))]
    ELSE [self EXCEPT !.rsi_gains = Append(@, gain),
                      !.rsi_losses = Append(@, loss)]

\* Lines 119-150.
Streaming_rsi_change(self, change) ==
    Streaming_rsi_average(Streaming_rsi_push(self, Gain(change), Loss(change)),
                          Gain(change), Loss(change))

Streaming_calculate_rsi(self, current_price) ==
    IF Len(self.prices) < 2 THEN Ret(self, None)
    ELSE Streaming_rsi_change(self,
                              FSub(current_price, self.prices[Len(self.prices) - 1]))

Streaming_calculate_volume_sma(self) ==
    IF Len(self.volumes) < self.window_size THEN None
    ELSE Some(FDiv(F(USum(self.volumes)), F(Len(self.volumes))))

\* VolumeRatio with the quotient inverted: volume_sma / volume.
VolumeRatio_inverted(volume, volume_sma) ==
    IF volume_sma = None THEN None ELSE Some(FDiv(volume_sma[1], F(volume)))

\* volume_sma.map(|vs| tick.volume as f64 / vs)
VolumeRatio(volume, volume_sma) ==
    IF volume_sma = None THEN None ELSE Some(FDiv(F(volume), volume_sma[1]))

\* Lines 73-83.
Streaming_values(self, tick, sma, ema, rsi, volume_sma) ==
    [st |-> self,
     res |-> [price |-> tick.price, volume |-> tick.volume, sma |-> sma, ema |-> ema,
              rsi |-> rsi, volume_sma |-> volume_sma,
              volume_ratio |-> VolumeRatio(tick.volume, volume_sma)]]

\* Lines 70-71 on the calculator and the results of lines 68-69.
Streaming_after_rsi(tick, sma, ema, r) ==
    Streaming_values(r.st, tick, sma, ema, r.ret, Streaming_calculate_volume_sma(r.st))

Streaming_after_ema(tick, sma, e) ==
    Streaming_after_rsi(tick, sma, e.ret, Streaming_calculate_rsi(e.st, tick.price))

\* Lines 68-69 on the calculator s1 after lines 58-65.
Streaming_calculate(s1, tick) ==
    Streaming_after_ema(tick, Streaming_calculate_sma(s1),
                        Streaming_calculate_ema(s1, tick.price))

\* The calculator after update(tick) and the snapshot it returns.
Streaming_update(self, tick) == Streaming_calculate(Streaming_push(self, tick), tick)

(***************************************************************************)
(* Signal detector and streaming processor: src/src/streaming.rs           *)
(***************************************************************************)
Detector_new(indicators) == [kind |-> "detector", indicators |-> indicators]

\* A TradingSignal of the snapshot ind (symbol, timestamp and description
\* are left out).
TradingSignal(signal_type, strength, ind) ==
    [signal_type |-> signal_type, strength |-> strength, price |-> ind.price]

\* Detect_rsi_value whose thresholds include 30 and 70.
Detect_rsi_value_inclusive(ind, rsi) ==
    IF ~FGt(rsi, F(30))
    THEN <<TradingSignal("Oversold", FDiv(FSub(F(30), rsi), F(30)), ind)>>
    ELSE IF ~FLt(rsi, F(70))
    THEN <<TradingSignal("Overbought", FDiv(FSub(rsi, F(70)), F(30)), ind)>>
    ELSE <<>>

\* Lines 193-211 on the RSI of the snapshot.
Detect_rsi_value(ind, rsi) ==
    IF FLt(rsi, F(30))
    THEN <<TradingSignal("Oversold", FDiv(FSub(F(30), rsi), F(30)), ind)>>
    ELSE IF FGt(rsi, F(70))
    THEN <<TradingSignal("Overbought", FDiv(FSub(rsi, F(70)), F(30)), ind)>>
    ELSE <<>>

\* Lines 192-212.
Detect_rsi(ind) == IF ind.rsi # None THEN Detect_rsi_value(ind, ind.rsi[1]) ELSE <<>>

\* Lines 216-225 on the volume ratio of the snapshot.
Detect_volume_value(ind, volume_ratio) ==
    IF FGt(volume_ratio, F(2))
    THEN <<TradingSignal("VolumeSpike", FDiv(FSub(volume_ratio, F(2)), F(3)), ind)>>
    ELSE <<>>

\* Lines 215-226.
Detect_volume(ind) ==
    IF ind.volume_ratio # None THEN Detect_volume_value(ind, ind.volume_ratio[1])
    ELSE <<>>

\* Line 230.
CrossoverStrength(sma, ema) == FAbs(FDiv(FSub(ema, sma), sma))

\* Detect_crossover_value without the 0.2% dead-band.
Detect_crossover_value_noband(ind, sma, ema) ==
    IF FGt(ema, sma)
    THEN <<TradingSignal("BullishCrossover", FMin(CrossoverStrength(sma, ema), F(1)), ind)>>
    ELSE IF FLt(ema, sma)
    THEN <<TradingSignal("BearishCrossover", FMin(CrossoverStrength(sma, ema), F(1)), ind)>>
    ELSE <<>>

\* Lines 230-251 on the SMA and the EMA of the snapshot.
Detect_crossover_value(ind, sma, ema) ==
    IF FGt(ema, FMul(sma, Norm(1002, 1000)))
    THEN <<TradingSignal("BullishCrossover", FMin(CrossoverStrength(sma, ema), F(1)), ind)>>
    ELSE IF FLt(ema, FMul(sma, Norm(998, 1000)))
    THEN <<TradingSignal("BearishCrossover", FMin(CrossoverStrength(sma, ema), F(1)), ind)>>
    ELSE <<>>

\* Lines 229-252.
Detect_crossover(ind) ==
    IF ind.sma # None /\ ind.ema # None
    THEN Detect_crossover_value(ind, ind.sma[1], ind.ema[1])
    ELSE <<>>

\* Detect_signals that returns the signal of the first rule that fires only.
Detect_signals_first(ind) ==
    IF Detect_rsi(ind) # <<>> THEN Detect_rsi(ind)
    ELSE IF Detect_volume(ind) # <<>> THEN Detect_volume(ind)
    ELSE Detect_crossover(ind)

\* StreamingSignalDetector::detect_signals on the snapshot ind.
Detect_signals(ind) == Detect_rsi(ind) \o Detect_volume(ind) \o Detect_crossover(ind)

Processor_new(window_size) ==
    [kind |-> "processor", indicators |-> Streaming_new(window_size),
     signal_handlers |-> <<>>]

\* add_signal_handler: handlers are told apart by the order of registration.
Processor_add_signal_handler(self) ==
    [self EXCEPT !.signal_handlers = Append(@, Len(@) + 1)]

\* The handler calls handler by handler: each handler gets all the signals in turn.
RECURSIVE HandlerCalls_by_handler(_, _, _, _)
HandlerCalls_by_handler(signals, handlers, i, j) ==
    IF j > Len(handlers) THEN <<>>
    ELSE IF i > Len(signals) THEN HandlerCalls_by_handler(signals, handlers, 1, j + 1)
    ELSE <<[handler |-> handlers[j], signal |-> signals[i]]>>
         \o HandlerCalls_by_handler(signals, handlers, i + 1, j)

\* Lines 313-317: the handler calls, signal by signal, handlers in
\* registration order.
RECURSIVE HandlerCalls(_, _, _, _)
HandlerCalls(signals, handlers, i, j) ==
    IF i > Len(signals) THEN <<>>
    ELSE IF j > Len(handlers) THEN HandlerCalls(signals, handlers, i + 1, 1)
    ELSE <<[handler |-> handlers[j], signal |-> signals[i]]>>
         \o HandlerCalls(signals, handlers, i, j + 1)

\* Processor_detected that calls the handlers handler by handler.
Processor_detected_by_handler(self, values, signals) ==
    [st |-> self, values |-> values, res |-> signals,
     calls |-> HandlerCalls_by_handler(signals, self.signal_handlers, 1, 1)]

\* Lines 309-319 on the processor and the snapshot of line 306.
Processor_detected(self, values, signals) ==
    [st |-> self, values |-> values, res |-> signals,
     calls |-> HandlerCalls(signals, self.signal_handlers, 1, 1)]

\* Lines 304-319 on the result u of update.
Processor_updated(self, u) ==
    Processor_detected([self EXCEPT !.indicators = u.st], u.res, Detect_signals(u.res))

Processor_process_tick(self, tick) ==
    Processor_updated(self, Streaming_update(self.indicators, tick))

(***************************************************************************)
(* A StreamingProcessor shared by threads: process_tick(&self) of          *)
(* src/src/streaming.rs, step by step.                                     *)
(***************************************************************************)
Threads == {1, 2}

MaxCalls == 3

\* Mutex::new: no holder (0), not poisoned.
Mutex_new == [holder |-> 0, poisoned |-> FALSE]

\* A thread: where it is in process_tick, the position of its tick in the
\* order of the lock acquisitions, and the snapshot update returned to it.
Thread_new == [pc |-> "idle", seq |-> 0, values |-> None]

\* The processor, its handlers registered, behind a shared reference.
Shared_new(self) ==
    [kind |-> "shared", indicators |-> self.indicators,
     signal_handlers |-> self.signal_handlers, mutex |-> Mutex_new,
     threads |-> [t \in Threads |-> Thread_new]]

\* A lock that does not wait for the holder to release the mutex.
Mutex_free_always(mutex) == TRUE

\* lock() returns only when no thread holds the mutex.
Mutex_free(mutex) == mutex.holder = 0

\* `self.indicators.lock().unwrap()`: the guard, or a panic when the mutex is
\* poisoned (the guard inside the error is dropped).
Shared_lock(self, t, seq) ==
    IF self.mutex.poisoned
    THEN [self EXCEPT !.threads[t] = [pc |-> "poisoned", seq |-> 0, values |-> None]]
    ELSE [self EXCEPT !.mutex.holder = t,
                      !.threads[t] = [pc |-> "locked", seq |-> seq, values |-> None]]

\* update, lines 58-65, under the lock.
Shared_push(self, t, tick) ==
    [self EXCEPT !.indicators = Streaming_push(@, tick), !.threads[t].pc = "pushed"]

\* Shared_calculated with the guard kept until process_tick returns.
Shared_calculated_held(self, t, u) ==
    [self EXCEPT !.indicators = u.st,
                 !.threads[t].pc = "updated", !.threads[t].values = Some(u.res)]

\* The end of update and of the block of lines 304-307: the snapshot is
\* returned and the guard dropped.
Shared_calculated(self, t, u) ==
    [self EXCEPT !.indicators = u.st, !.mutex.holder = 0,
                 !.threads[t].pc = "updated", !.threads[t].values = Some(u.res)]

\* update, lines 68-83, under the lock.
Shared_calculate(self, t, tick) ==
    Shared_calculated(self, t, Streaming_calculate(self.indicators, tick))

\* MutexGuard::drop: a guard the thread still holds is released, and the
\* mutex is poisoned when the thread is panicking.
Guard_drop(mutex, t, panicking) ==
    IF mutex.holder = t
    THEN [holder |-> 0, poisoned |-> mutex.poisoned \/ panicking]
    ELSE mutex

\* Lines 309-319: the handlers have run; process_tick returns and the thread
\* is free for its next call, or it unwinds when a handler panicked.
Shared_handled(self, t, panicking) ==
    [self EXCEPT !.mutex = Guard_drop(@, t, panicking),
                 !.threads[t] = IF panicking
                                THEN [pc |-> "panicked", seq |-> @.seq, values |-> None]
                                ELSE Thread_new]

\* The handler calls made when call k panics (all of them when k = 0).
CallsUntil(calls, k) == IF k = 0 THEN calls ELSE SubSeq(calls, 1, k)

(***************************************************************************)
(* Inputs.                                                                 *)
(***************************************************************************)
PriceVals == {[n |-> 1, d |-> 1], [n |-> 3, d |-> 1]}

\* What the buffer of a null price slot may hold.
NullRaws == {[n |-> 0, d |-> 1], [n |-> 2, d |-> 1]}

PriceSlots == {Slot(TRUE, p) : p \in PriceVals} \cup {Slot(FALSE, r) : r \in NullRaws}

Partitions(maxlen) == UNION {[1..k -> PriceSlots] : k \in 0..maxlen}

Windows == 0..MaxWindow

\* A window-size column of len rows: k nulls, then w, then w2 on every later row.
WsColumn(len, k, w, w2) ==
    [i \in 1..len |-> IF i <= k THEN IntSlot(FALSE, 0)
                      ELSE IF i = k + 1 THEN IntSlot(TRUE, w) ELSE IntSlot(TRUE, w2)]

\* The window-size columns of len rows: w on every row; one null, then w; w,
\* then another size on the later rows; null on every row.
WsColumns(len) ==
    {WsColumn(len, 0, w, w) : w \in Windows}
    \cup {WsColumn(len, 1, w, w) : w \in Windows}
    \cup {WsColumn(len, 0, w, (w % MaxWindow) + 1) : w \in Windows}
    \cup {WsColumn(len, len, 0, 0)}

ValidColumn(xs) == [i \in 1..Len(xs) |-> Slot(TRUE, F(xs[i]))]

ExamplePrices ==
    {<<1, 2, 3, 4, 5, 6, 7, 8, 9, 10>>, <<10, 12, 13, 12, 15>>, <<4, 2, 5, 9, 7, 8, 3>>}

\* Argument lists of sma/ema/rsi: (price, window_size) columns of one length,
\* and lists of the wrong arity or the wrong kind.
WindowArgs ==
    {<<Float64Array(p), Int64Array(c)>> :
        p \in Partitions(MaxLen), c \in UNION {WsColumns(k) : k \in 0..MaxLen}}

WellFormed(values) ==
    /\ Len(values) = 2
    /\ values[1].dtype = "Float64"
    /\ values[2].dtype = "Int64"
    /\ Len(values[1].slots) = Len(values[2].slots)

SamplePrices == Float64Array(ValidColumn(<<1, 3>>))

SampleWindow == Int64Array(WsColumn(2, 0, 2, 2))

MalformedArgs ==
    {<<>>, <<SamplePrices>>, <<SamplePrices, SampleWindow, SampleWindow>>,
     <<Utf8Array, SampleWindow>>, <<SampleWindow, SampleWindow>>,
     <<SamplePrices, SamplePrices>>, <<SamplePrices, Utf8Array>>}

EvaluatorArgs ==
    {v \in WindowArgs : WellFormed(v)}
    \cup {<<Float64Array(ValidColumn(xs)), Int64Array(WsColumn(Len(xs), 0, w, w))>> :
            xs \in ExamplePrices, w \in 1..MaxWindow}
    \cup MalformedArgs

MacdArgs ==
    {<<Float64Array(p)>> : p \in Partitions(MaxMacdRows)}
    \cup {<<>>, <<SamplePrices, SampleWindow>>, <<Utf8Array>>, <<SampleWindow>>}

\* The partitions after which a second evaluate_all on the same instance is
\* explored: one price series under two window sizes, and a call that failed.
PriorArgs ==
    {<<Float64Array(ValidColumn(xs)), Int64Array(WsColumn(Len(xs), 0, w, w))>> :
        xs \in {<<3, 1, 3>>}, w \in {0, 2}}
    \cup {<<>>}

\* num_rows is the number of rows of the partition, the length of its columns.
NumRows(values) == IF values = <<>> THEN 0 ELSE Len(values[1].slots)

Volumes == {1, 8}

Ticks == [price : PriceVals, volume : Volumes]

\* The ticks the threads of a shared processor send: one volume.
ThreadTicks == [price : PriceVals, volume : {1}]

\* The RSI, the SMA, the EMA, the volume and the volume SMA of the snapshots
\* given to a signal detector.
SnapshotRsi == {None} \cup {Some(F(x)) : x \in {0, 25, 30, 50, 70, 85, 100}}

SnapshotSma == {None, Some(F(100))}

SnapshotEma ==
    {None} \cup {Some(Norm(x, 10)) : x \in {997, 998, 1000, 1002, 1003, 2500}}

SnapshotVolume == {2, 4, 5, 10, 16}

SnapshotVolumeSma == {None, Some(F(2))}

Snapshot(rsi, sma, ema, volume, volume_sma) ==
    [price |-> F(100), volume |-> volume, sma |-> sma, ema |-> ema, rsi |-> rsi,
     volume_sma |-> volume_sma, volume_ratio |-> VolumeRatio(volume, volume_sma)]

Snapshots ==
    {Snapshot(rsi, sma, ema, volume, volume_sma) :
        rsi \in SnapshotRsi, sma \in SnapshotSma, ema \in SnapshotEma,
        volume \in SnapshotVolume, volume_sma \in SnapshotVolumeSma}

\* Handlers are registered before the first tick, at most this many.
Handlers == {1, 2}

(***************************************************************************)
(* The state machine: one evaluator or calculator instance and the calls   *)
(* made on it.  Instances share no state, so a behaviour follows one.      *)
(*   ev      the instance                                                  *)
(*   last    the last call: its arguments and what it returned (and, for   *)
(*           process_tick, the snapshot and the handler calls it made)     *)
(*   reused  whether the instance had been used before the last call       *)
(*   fed     rows fed so far to the MACD evaluator, or ticks to the        *)
(*           streaming calculator (bounds their unbounded recurrences)     *)
(*   ticks   the ticks given to update so far, oldest first                *)
(***************************************************************************)
\* ---------------------------------------------------------------------------
\* polygon/signals.rs: SignalDetector::detect_ma_crossover_signals on one
\* ticker's rows in window_start order.  SignalDetector is a unit struct.  The
\* columns sma_20 and sma_50 of the query are nullable Float64 columns.

MaxRows == 2

CloseVals == {[n |-> 1, d |-> 1], [n |-> 4, d |-> 1]}

SmaSlots == {Slot(FALSE, F(0)), Slot(TRUE, F(1)), Slot(TRUE, F(3))}

SignalDetector_new == [kind |-> "signal_detector"]

\* LAG(col, 1) OVER (...): the value of the previous row, null on the first.
Lag(col, i) == IF i = 1 THEN Slot(FALSE, F(0)) ELSE col[i - 1]

\* The column `name` of the rows.
Column(rows, name) == [i \in 1..Len(rows) |-> rows[i][name]]

\* The rows of the CTE ma_data; window_start is the row's position.
MaRows(rows, sma_20, sma_50) ==
    [i \in 1..Len(rows) |->
        [window_start |-> i, close |-> Slot(TRUE, rows[i].close),
         sma_20 |-> sma_20[i], sma_50 |-> sma_50[i],
         prev_sma_20 |-> Lag(sma_20, i), prev_sma_50 |-> Lag(sma_50, i)]]

MaData(rows) == MaRows(rows, Column(rows, "sma_20"), Column(rows, "sma_50"))

\* The crossing condition of the WHERE clause on non-null values.
MaCrossing(prev_sma_20, prev_sma_50, sma_20, sma_50) ==
    \/ (FLt(prev_sma_20, prev_sma_50) \/ FEq(prev_sma_20, prev_sma_50))
          /\ FGt(sma_20, sma_50)
    \/ (FGt(prev_sma_20, prev_sma_50) \/ FEq(prev_sma_20, prev_sma_50))
          /\ FLt(sma_20, sma_50)

\* MaWhere that leaves out `prev_sma_50 IS NOT NULL`.
MaWhere_unchecked(row) ==
    /\ row.sma_20.valid
    /\ row.sma_50.valid
    /\ row.prev_sma_20.valid
    /\ MaCrossing(row.prev_sma_20.raw, row.prev_sma_50.raw,
                  row.sma_20.raw, row.sma_50.raw)

\* The WHERE clause: a row with a null in one of the four columns is dropped.
MaWhere(row) ==
    /\ row.sma_20.valid
    /\ row.sma_50.valid
    /\ row.prev_sma_20.valid
    /\ row.prev_sma_50.valid
    /\ MaCrossing(row.prev_sma_20.raw, row.prev_sma_50.raw,
                  row.sma_20.raw, row.sma_50.raw)

\* Lines 147-163: the signal of a selected row (symbol and reason left out).
MaSignal(row) ==
    [signal_type |-> IF FGt(row.sma_20.raw, row.sma_50.raw) THEN "Buy" ELSE "Sell",
     timestamp |-> row.window_start,
     price |-> row.close.raw,
     confidence |-> FMin(FDiv(FAbs(FSub(row.sma_20.raw, row.sma_50.raw)),
                              row.close.raw), F(1))]

MaSignals(selected) == [k \in 1..Len(selected) |-> MaSignal(selected[k])]

Detect_ma_crossover_signals(ma_data) == MaSignals(SelectSeq(ma_data, MaWhere))

\* The rows the query reads: a close and the two averages of each row.
InputRows == [close : CloseVals, sma_20 : SmaSlots, sma_50 : SmaSlots]

MaTables == UNION {[1..n -> InputRows] : n \in 0..MaxRows}

\* ---------------------------------------------------------------------------
\* polygon/validator.rs: ValidationReport.  `checks` is the HashMap from check
\* name to failed-row count, modelled as a function on the inserted names.

CheckNames == {"null_check", "range_check"}

FailedRows == {0, 3}

TotalRows == {0, 5}

Report_new == [kind |-> "report", checks |-> [n \in {} |-> 0], total_rows |-> 0, passed |-> TRUE]

\* HashMap::insert: the entry of `name` is created or overwritten.
HashMap_insert(map, name, value) ==
    [n \in DOMAIN map \cup {name} |-> IF n = name THEN value ELSE map[n]]

\* add_check: insert, then `if failed_rows > 0 { self.passed = false; }`.
Report_add_check(self, name, failed_rows) ==
    [self EXCEPT !.checks = HashMap_insert(self.checks, name, failed_rows),
                 !.passed = IF failed_rows > 0 THEN FALSE ELSE self.passed]

Report_set_total_rows(self, total) == [self EXCEPT !.total_rows = total]

Init ==
    /\ ev \in {Sma_new, Ema_new, Rsi_new, Macd_new}
               \cup {Streaming_new(w) : w \in Windows}
               \cup {Detector_new(ind) : ind \in Snapshots}
               \cup {Processor_new(w) : w \in Windows}
               \cup {Report_new, SignalDetector_new}
    /\ last = [fn |-> "new"]
    /\ reused = FALSE
    /\ fed = 0
    /\ ticks = <<>>

\* evaluate_all is explored on a new instance, and on an instance whose single
\* earlier partition was one of PriorArgs.
MayCall == IF last.fn = "new" THEN TRUE ELSE ~reused /\ last.values \in PriorArgs

Called(values, r) ==
    /\ ev' = r.st
    /\ last' = [fn |-> "evaluate_all", values |-> values,
                num_rows |-> NumRows(values), res |-> r.res]
    /\ reused' = (last.fn # "new")
    /\ ticks' = ticks

Updated(tick, r) ==
    /\ ev' = r.st
    /\ last' = [fn |-> "update", tick |-> tick, res |-> r.res]
    /\ reused' = (last.fn # "new")
    /\ fed' = fed + 1
    /\ ticks' = Append(ticks, tick)

SmaEvaluateAll ==
    /\ ev.kind = "sma"
    /\ MayCall
    /\ \E values \in EvaluatorArgs :
          Called(values, Sma_evaluate_all(ev, values, NumRows(values)))
    /\ UNCHANGED fed

EmaEvaluateAll ==
    /\ ev.kind = "ema"
    /\ MayCall
    /\ \E values \in EvaluatorArgs :
          Called(values, Ema_evaluate_all(ev, values, NumRows(values)))
    /\ UNCHANGED fed

RsiEvaluateAll ==
    /\ ev.kind = "rsi"
    /\ MayCall
    /\ \E values \in EvaluatorArgs :
          Called(values, Rsi_evaluate_all(ev, values, NumRows(values)))
    /\ UNCHANGED fed

MacdFed(values, r) == IF r.res.status = "Ok" THEN fed + NumRows(values) ELSE fed

MacdCalled(values, r) == Called(values, r) /\ fed' = MacdFed(values, r)

MacdEvaluateAll ==
    /\ ev.kind = "macd"
    /\ \E values \in MacdArgs :
          /\ fed + NumRows(values) <= MaxMacdRows
          /\ MacdCalled(values, Macd_evaluate_all(ev, values, NumRows(values)))

StreamingUpdate ==
    /\ ev.kind = "stream"
    /\ fed < MaxTicks
    /\ \E tick \in Ticks : Updated(tick, Streaming_update(ev, tick))

DetectSignals ==
    /\ ev.kind = "detector"
    /\ last.fn = "new"
    /\ ev' = ev
    /\ last' = [fn |-> "detect_signals", res |-> Detect_signals(ev.indicators)]
    /\ reused' = FALSE
    /\ UNCHANGED <<fed, ticks>>

AddSignalHandler ==
    /\ ev.kind = "processor"
    /\ fed = 0
    /\ Len(ev.signal_handlers) + 1 \in Handlers
    /\ ev' = Processor_add_signal_handler(ev)
    /\ last' = [fn |-> "add_signal_handler"]
    /\ reused' = FALSE
    /\ UNCHANGED <<fed, ticks>>

Processed(tick, r) ==
    /\ ev' = r.st
    /\ last' = [fn |-> "process_tick", tick |-> tick, values |-> r.values,
                res |-> r.res, calls |-> r.calls]
    /\ reused' = (fed > 0)
    /\ fed' = fed + 1
    /\ ticks' = Append(ticks, tick)

ProcessTick ==
    /\ ev.kind = "processor"
    /\ fed < MaxTicks
    /\ \E tick \in Ticks : Processed(tick, Processor_process_tick(ev, tick))

AddCheck ==
    /\ ev.kind = "report"
    /\ \E name \in CheckNames, failed_rows \in FailedRows :
          /\ ev' = Report_add_check(ev, name, failed_rows)
          /\ last' = [fn |-> "add_check", name |-> name, failed_rows |-> failed_rows]
    /\ reused' = FALSE
    /\ UNCHANGED <<fed, ticks>>

SetTotalRows ==
    /\ ev.kind = "report"
    /\ \E total \in TotalRows :
          /\ ev' = Report_set_total_rows(ev, total)
          /\ last' = [fn |-> "set_total_rows", total |-> total]
    /\ reused' = FALSE
    /\ UNCHANGED <<fed, ticks>>

MaDetected(ma_data) ==
    /\ ev' = ev
    /\ last' = [fn |-> "detect_ma_crossover_signals", ma_data |-> ma_data,
                res |-> Detect_ma_crossover_signals(ma_data)]

DetectMaCrossoverSignals ==
    /\ ev.kind = "signal_detector"
    /\ last.fn = "new"
    /\ \E rows \in MaTables : MaDetected(MaData(rows))
    /\ reused' = FALSE
    /\ UNCHANGED <<fed, ticks>>

Share ==
    /\ ev.kind = "processor"
    /\ fed = 0
    /\ ev' = Shared_new(ev)
    /\ last' = [fn |-> "share"]
    /\ reused' = FALSE
    /\ UNCHANGED <<fed, ticks>>

SharedLock ==
    /\ ev.kind = "shared"
    /\ fed < MaxCalls
    /\ Mutex_free(ev.mutex)
    /\ \E t \in Threads, tick \in ThreadTicks :
          /\ ev.threads[t].pc = "idle"
          /\ ev' = Shared_lock(ev, t, Len(ticks) + 1)
          /\ last' = [fn |-> "lock"]
          /\ ticks' = IF ev.mutex.poisoned THEN ticks ELSE Append(ticks, tick)
    /\ fed' = fed + 1
    /\ reused' = FALSE

SharedPush ==
    /\ ev.kind = "shared"
    /\ \E t \in Threads :
          /\ ev.threads[t].pc = "locked"
          /\ ev' = Shared_push(ev, t, ticks[ev.threads[t].seq])
          /\ last' = [fn |-> "push"]
    /\ reused' = FALSE
    /\ UNCHANGED <<fed, ticks>>

SharedCalculate ==
    /\ ev.kind = "shared"
    /\ \E t \in Threads :
          /\ ev.threads[t].pc = "pushed"
          /\ ev' = Shared_calculate(ev, t, ticks[ev.threads[t].seq])
          /\ last' = [fn |-> "calculate"]
    /\ reused' = FALSE
    /\ UNCHANGED <<fed, ticks>>

SharedHandled(t, calls, k) ==
    /\ ev' = Shared_handled(ev, t, k # 0)
    /\ last' = [fn |-> "handlers", seq |-> ev.threads[t].seq,
                res |-> Detect_signals(ev.threads[t].values[1]),
                calls |-> CallsUntil(calls, k), panicked |-> k # 0]

SharedHandlers ==
    /\ ev.kind = "shared"
    /\ \E t \in Threads :
          /\ ev.threads[t].pc = "updated"
          /\ \E k \in 0..(Len(Detect_signals(ev.threads[t].values[1]))
                          * Len(ev.signal_handlers)) :
                SharedHandled(t, HandlerCalls(Detect_signals(ev.threads[t].values[1]),
                                              ev.signal_handlers, 1, 1), k)
    /\ reused' = FALSE
    /\ UNCHANGED <<fed, ticks>>

Next ==
    \/ SmaEvaluateAll
    \/ EmaEvaluateAll
    \/ RsiEvaluateAll
    \/ MacdEvaluateAll
    \/ StreamingUpdate
    \/ DetectSignals
    \/ AddSignalHandler
    \/ ProcessTick
    \/ AddCheck
    \/ SetTotalRows
    \/ DetectMaCrossoverSignals
    \/ Share
    \/ SharedLock
    \/ SharedPush
    \/ SharedCalculate
    \/ SharedHandlers

Spec == Init /\ [][Next]_vars


(***************************************************************************)
(* What the claims speak of.                                               *)
(***************************************************************************)
\* The last call was an evaluate_all of a `kind` evaluator that returned Ok.
BatchOk(kind) == ev.kind = kind /\ last.fn = "evaluate_all" /\ last.res.status = "Ok"

Prices == last.values[1].slots

Out == last.res.out.slots

AllValid(slots) == \A i \in 1..Len(slots) : slots[i].valid

\* The window size N of a window-size column: its first non-null entry.
WindowOf(col) ==
    col[CHOOSE i \in 1..Len(col) : col[i].valid /\ \A j \in 1..(i - 1) : ~col[j].valid].int

N == WindowOf(last.values[2].slots)

RECURSIVE RefSum(_, _, _)
RefSum(slots, lo, hi) ==
    IF lo > hi THEN F(0) ELSE FAdd(RefSum(slots, lo, hi - 1), slots[hi].raw)

ExampleArgs(xs, w) ==
    <<Float64Array(ValidColumn(xs)), Int64Array(WsColumn(Len(xs), 0, w, w))>>

\* C1: for N >= 1 and non-null prices the SMA output is null at every
\* position before N-1 and, from position N-1 on, the mean of the N prices
\* ending at that position (index i below is position i-1).
C1_SmaWindowMean ==
    (BatchOk("sma") /\ AllValid(Prices) /\ N >= 1) =>
        \A i \in 1..Len(Prices) :
            IF i < N THEN ~Out[i].valid
            ELSE /\ Out[i].valid
                 /\ FMul(Out[i].raw, F(N)) = RefSum(Prices, i - N + 1, i)

\* SMA(3) on 1..10 is [null, null, 2, 3, 4, 5, 6, 7, 8, 9].
C1_Witness ==
    /\ BatchOk("sma")
    /\ last.values = ExampleArgs(<<1, 2, 3, 4, 5, 6, 7, 8, 9, 10>>, 3)
    /\ last.res.out = ArrayFrom(<<None, None, Some(F(2)), Some(F(3)), Some(F(4)),
                                  Some(F(5)), Some(F(6)), Some(F(7)), Some(F(8)),
                                  Some(F(9))>>)

\* C2: for N >= 1 and a non-empty series of non-null prices the EMA output is
\* non-null everywhere, starts at price[0] and follows
\* out[i] = a*price[i] + (1-a)*out[i-1] with a = 2/(N+1).
C2_EmaRecurrence ==
    (BatchOk("ema") /\ AllValid(Prices) /\ N >= 1 /\ Len(Prices) >= 1) =>
        /\ \A i \in 1..Len(Prices) : Out[i].valid
        /\ Out[1].raw = Prices[1].raw
        /\ \A i \in 2..Len(Prices) :
              Out[i].raw = FAdd(FMul(Norm(2, N + 1), Prices[i].raw),
                                FMul(FSub(F(1), Norm(2, N + 1)), Out[i - 1].raw))

\* EMA(3) on [10, 12, 13, 12, 15] is [10, 11, 12, 12, 13.5].
C2_Witness ==
    /\ BatchOk("ema")
    /\ last.values = ExampleArgs(<<10, 12, 13, 12, 15>>, 3)
    /\ last.res.out = ArrayFrom(<<Some(F(10)), Some(F(11)), Some(F(12)), Some(F(12)),
                                  Some(Norm(27, 2))>>)

\* The gain (up = TRUE) or loss (up = FALSE) of the price change into index i.
RefDelta(slots, i, up) ==
    IF up
    THEN (IF FGt(slots[i].raw, slots[i - 1].raw)
          THEN FSub(slots[i].raw, slots[i - 1].raw) ELSE F(0))
    ELSE (IF FGt(slots[i - 1].raw, slots[i].raw)
          THEN FSub(slots[i - 1].raw, slots[i].raw) ELSE F(0))

RECURSIVE RefDeltaSum(_, _, _)
RefDeltaSum(slots, k, up) ==
    IF k = 0 THEN F(0)
    ELSE FAdd(RefDeltaSum(slots, k - 1, up), RefDelta(slots, k + 1, up))

\* avgGain / avgLoss at index i >= n+1 (position i-1 >= n): the mean of the first
\* n changes at position n, Wilder smoothing after it.
RECURSIVE RefAvg(_, _, _, _)
RefAvg(slots, n, i, up) ==
    IF i = n + 1 THEN FDiv(RefDeltaSum(slots, n, up), F(n))
    ELSE FAdd(FMul(RefAvg(slots, n, i - 1, up), FSub(F(1), Norm(1, n))),
              FMul(RefDelta(slots, i, up), Norm(1, n)))

RefRsi(avg_gain, avg_loss) ==
    IF avg_loss = F(0) THEN F(100)
    ELSE FSub(F(100), FDiv(F(100), FAdd(F(1), FDiv(avg_gain, avg_loss))))

\* C3: for N >= 1 and non-null prices the RSI output is null at positions
\* 0..N-1 and, at every position from N on, the RSI of avgGain and avgLoss,
\* which are the means of the first N gains and losses at position N and are
\* Wilder-smoothed with factor 1/N at every later position; the evaluator is
\* left holding the averages of the last position.
C3_RsiSeedThenWilder ==
    (BatchOk("rsi") /\ AllValid(Prices) /\ N >= 1) =>
        /\ \A i \in 1..Len(Prices) :
              IF i <= N THEN ~Out[i].valid
              ELSE /\ Out[i].valid
                   /\ Out[i].raw = RefRsi(RefAvg(Prices, N, i, TRUE),
                                          RefAvg(Prices, N, i, FALSE))
        /\ Len(Prices) > N =>
              /\ ev.avg_gain = RefAvg(Prices, N, Len(Prices), TRUE)
              /\ ev.avg_loss = RefAvg(Prices, N, Len(Prices), FALSE)

\* A partition that goes beyond the seed position, with a gain and a loss in it.
C3_Witness ==
    /\ BatchOk("rsi")
    /\ AllValid(Prices)
    /\ N = 2
    /\ Len(Prices) >= N + 2
    /\ ~FEq(ev.avg_gain, F(0))
    /\ ~FEq(ev.avg_loss, F(0))

\* A non-null RSI was produced for the last row of a batch partition.
BatchRsiProduced == BatchOk("rsi") /\ Len(Out) >= 1 /\ Out[Len(Out)].valid

\* The streaming calculator returned a snapshot with an RSI.
StreamRsiProduced == ev.kind = "stream" /\ last.fn = "update" /\ last.res.rsi # None

RsiRule(rsi, avg_gain, avg_loss) ==
    IF FEq(avg_loss, F(0)) THEN rsi = F(100)
    ELSE rsi = FSub(F(100), FDiv(F(100), FAdd(F(1), FDiv(avg_gain, avg_loss))))

\* C4: whenever the batch RSI evaluator or the streaming calculator produces
\* an RSI, it is exactly 100 if the current avgLoss is exactly 0 and
\* 100 - 100/(1 + avgGain/avgLoss) otherwise, and neither division of that
\* computation has a zero divisor.
C4_RsiZeroLossIs100 ==
    /\ BatchRsiProduced =>
          /\ RsiRule(Out[Len(Out)].raw, ev.avg_gain, ev.avg_loss)
          /\ F(0) \notin Rsi_calculate_rsi_divisors(ev.avg_gain, ev.avg_loss)
    /\ StreamRsiProduced =>
          /\ RsiRule(last.res.rsi[1], ev.rsi_avg_gain, ev.rsi_avg_loss)
          /\ F(0) \notin Streaming_rsi_divisors(ev.rsi_avg_gain, ev.rsi_avg_loss)

\* A flat series: avgGain and avgLoss are both 0 and the RSI is 100.
C4_Witness ==
    /\ BatchRsiProduced
    /\ FEq(ev.avg_gain, F(0))
    /\ FEq(ev.avg_loss, F(0))
    /\ Out[Len(Out)].raw = F(100)

\* The EMA recurrence with factor a over non-null prices, at index i.
RECURSIVE RefEma(_, _, _)
RefEma(slots, a, i) ==
    IF i = 1 THEN slots[1].raw
    ELSE FAdd(FMul(a, slots[i].raw), FMul(FSub(F(1), a), RefEma(slots, a, i - 1)))

\* The evaluator had not been fed a row before the last call.
FreshMacd == BatchOk("macd") /\ fed = Len(Prices)

\* C5: on a freshly created MACD evaluator and non-null prices the output at
\* every position is non-null and is EMA12 - EMA26 of two independent EMA
\* recurrences with factors 2/13 and 2/27, each seeded with price[0].
C5_MacdIsEmaDifference ==
    (FreshMacd /\ AllValid(Prices)) =>
        \A i \in 1..Len(Prices) :
            /\ Out[i].valid
            /\ Out[i].raw = FSub(RefEma(Prices, Norm(2, 13), i),
                                 RefEma(Prices, Norm(2, 27), i))
            /\ i = 1 => Out[i].raw = F(0)

C5_Witness ==
    /\ FreshMacd
    /\ AllValid(Prices)
    /\ Len(Prices) = MaxMacdRows
    /\ ~FEq(Out[Len(Out)].raw, F(0))

\* C6: evaluate_all of a MACD evaluator that has evaluated an earlier
\* partition returns what a fresh evaluator returns on the same partition.
C6_MacdReuseIsFresh ==
    BatchOk("macd") =>
        last.res = Macd_evaluate_all(Macd_new, last.values, last.num_rows).res

FreshResult ==
    IF ev.kind = "sma" THEN Sma_evaluate_all(Sma_new, last.values, last.num_rows).res
    ELSE IF ev.kind = "ema"
    THEN Ema_evaluate_all(Ema_new, last.values, last.num_rows).res
    ELSE Rsi_evaluate_all(Rsi_new, last.values, last.num_rows).res

\* C7: for N >= 1, evaluate_all of an SMA, EMA or RSI evaluator that has
\* evaluated an earlier partition returns what a fresh evaluator returns on
\* the same partition.
C7_ReuseIsFresh ==
    (ev.kind \in {"sma", "ema", "rsi"} /\ last.fn = "evaluate_all"
        /\ last.res.status = "Ok" /\ N >= 1) =>
        last.res = FreshResult

\* A second partition, after a first one with another window size, with an
\* RSI in its output.
C7_Witness ==
    /\ BatchOk("rsi")
    /\ reused
    /\ N = 1
    /\ Len(Out) >= 3
    /\ Out[Len(Out)].valid
    /\ Out[Len(Out)].raw # F(100)

BatchKinds == {"sma", "ema", "rsi", "macd"}

\* C8: a null price at a position gives a null output at that position, for
\* every batch evaluator.
C8_NullInNullOut ==
    (ev.kind \in BatchKinds /\ last.fn = "evaluate_all" /\ last.res.status = "Ok") =>
        \A i \in 1..Len(Prices) : ~Prices[i].valid => ~Out[i].valid

\* The slots without the one at index i.
Without(slots, i) == SubSeq(slots, 1, i - 1) \o SubSeq(slots, i + 1, Len(slots))

\* The arguments of the last call with row i removed, N unchanged.
ArgsWithout(i) ==
    IF ev.kind = "macd" THEN <<Float64Array(Without(Prices, i))>>
    ELSE <<Float64Array(Without(Prices, i)),
           Int64Array(WsColumn(Len(Prices) - 1, 0, N, N))>>

\* What a fresh evaluator returns on the last call's partition without row i.
OutWithout(i) ==
    IF ev.kind = "sma"
    THEN Sma_evaluate_all(Sma_new, ArgsWithout(i), Len(Prices) - 1).res.out.slots
    ELSE IF ev.kind = "ema"
    THEN Ema_evaluate_all(Ema_new, ArgsWithout(i), Len(Prices) - 1).res.out.slots
    ELSE IF ev.kind = "rsi"
    THEN Rsi_evaluate_all(Rsi_new, ArgsWithout(i), Len(Prices) - 1).res.out.slots
    ELSE Macd_evaluate_all(Macd_new, ArgsWithout(i), Len(Prices) - 1).res.out.slots

\* C9: a null price leaves the recurrence state alone: on a new evaluator the
\* outputs at the non-null positions after a null row are the outputs on the
\* series without that row.
C9_NullLeavesStateAlone ==
    (ev.kind \in BatchKinds /\ last.fn = "evaluate_all" /\ last.res.status = "Ok"
        /\ ~reused) =>
        \A i \in 1..Len(Prices) :
            ~Prices[i].valid =>
                \A j \in (i + 1)..Len(Prices) :
                    Prices[j].valid => Out[j] = OutWithout(i)[j - 1]

\* What a new evaluator of the last call's kind returns on its first k rows.
PrefixResult(k) ==
    IF ev.kind = "sma" THEN Sma_evaluate_all(Sma_new, last.values, k).res
    ELSE IF ev.kind = "ema" THEN Ema_evaluate_all(Ema_new, last.values, k).res
    ELSE IF ev.kind = "rsi" THEN Rsi_evaluate_all(Rsi_new, last.values, k).res
    ELSE Macd_evaluate_all(Macd_new, last.values, k).res

\* C10: a successful evaluate_all returns num_rows outputs, and output i
\* belongs to input row i: the first k outputs are the outputs of the first k
\* rows (for MACD, on an evaluator not fed before).
C10_OneOutputPerRow ==
    (ev.kind \in BatchKinds /\ last.fn = "evaluate_all" /\ last.res.status = "Ok") =>
        /\ Len(Out) = last.num_rows
        /\ (ev.kind # "macd" \/ fed = Len(Prices)) =>
              \A k \in 0..last.num_rows :
                  SubSeq(Out, 1, k) = PrefixResult(k).out.slots

\* An RSI partition whose rows take every branch of the loop: the first row,
\* a warm-up row, a row with an RSI.
C10_Witness ==
    /\ BatchOk("rsi")
    /\ last.num_rows = 5
    /\ N = 2
    /\ Len(Out) = 5
    /\ ~Out[1].valid
    /\ ~Out[2].valid
    /\ Out[5].valid


AllNull(col) == \A i \in 1..Len(col) : ~col[i].valid

\* The argument lists the SMA, EMA and RSI evaluators must refuse.
BadWindowArgs(values) ==
    \/ Len(values) # 2
    \/ values[1].dtype # "Float64"
    \/ values[2].dtype # "Int64"
    \/ AllNull(values[2].slots)

\* The argument lists the MACD evaluator must refuse.
BadMacdArgs(values) == Len(values) # 1 \/ values[1].dtype # "Float64"

BadArgs == IF ev.kind = "macd" THEN BadMacdArgs(last.values) ELSE BadWindowArgs(last.values)

\* C11: evaluate_all returns an error and no output when the number of
\* arguments is wrong, when an argument has the wrong kind, or (SMA, EMA, RSI)
\* when every window size is null; a call that succeeds works with the first
\* non-null window size, never with a default.
C11_BadArgsFail ==
    (ev.kind \in BatchKinds /\ last.fn = "evaluate_all") =>
        /\ BadArgs => (last.res.status = "Err" /\ last.res.out.slots = <<>>)
        /\ (ev.kind # "macd" /\ last.res.status = "Ok") => ev.window_size = N

\* Prices with a window-size column that is null on every row: refused.
C11_Witness ==
    /\ ev.kind \in {"sma", "ema", "rsi"}
    /\ last.fn = "evaluate_all"
    /\ WellFormed(last.values)
    /\ last.num_rows >= 2
    /\ AllNull(last.values[2].slots)
    /\ last.res.status = "Err"
    /\ last.res.msg = "Window size cannot be null"

\* C12: a window size of 0 is a configuration error: evaluate_all of the SMA,
\* EMA and RSI evaluators fails on it, and no streaming calculator operates
\* with window size 0.
C12_WindowZeroFails ==
    /\ (ev.kind \in {"sma", "ema", "rsi"} /\ last.fn = "evaluate_all"
          /\ WellFormed(last.values) /\ ~AllNull(last.values[2].slots) /\ N = 0) =>
          last.res.status = "Err"
    /\ (ev.kind = "stream" /\ last.fn = "update") => ev.window_size >= 1

\* C13: a call of evaluate_all that fails with a configuration error leaves
\* the evaluator exactly as it was before the call.
C13_ErrorLeavesState ==
    [][(last'.fn = "evaluate_all" /\ last'.res.status = "Err") => ev' = ev]_vars

\* An RSI evaluator that holds the state of an earlier partition after a
\* failed call.
C13_Witness ==
    /\ ev.kind = "rsi"
    /\ last.fn = "evaluate_all"
    /\ last.res.status = "Err"
    /\ reused
    /\ ev.window_size = 2
    /\ Len(ev.values) = 3
    /\ Len(ev.gains) = 2


\* update has returned a snapshot.
StreamUpdated == ev.kind = "stream" /\ last.fn = "update"

\* An output slot as an Option<f64>.
SlotOpt(slot) == IF slot.valid THEN Some(slot.raw) ELSE None

\* The prices of the ticks so far as one partition with window size n.
TickArgs(n) ==
    <<Float64Array([i \in 1..Len(ticks) |-> Slot(TRUE, ticks[i].price)]),
      Int64Array(WsColumn(Len(ticks), 0, n, n))>>

BatchSmaAtTick ==
    SlotOpt(Sma_evaluate_all(Sma_new, TickArgs(ev.window_size),
                             Len(ticks)).res.out.slots[Len(ticks)])

BatchEmaAtTick ==
    SlotOpt(Ema_evaluate_all(Ema_new, TickArgs(ev.window_size),
                             Len(ticks)).res.out.slots[Len(ticks)])

BatchRsiAtTick ==
    SlotOpt(Rsi_evaluate_all(Rsi_new, TickArgs(ev.window_size),
                             Len(ticks)).res.out.slots[Len(ticks)])

\* C14: for N >= 1 the sma and ema of the snapshot update returns at tick k
\* are the batch SMA(N) and EMA(N) outputs at position k-1 on the prices of
\* the first k ticks.
C14_StreamSmaEmaIsBatch ==
    (StreamUpdated /\ ev.window_size >= 1) =>
        /\ last.res.sma = BatchSmaAtTick
        /\ last.res.ema = BatchEmaAtTick

\* More ticks than the window holds, with an SMA that differs from the EMA.
C14_Witness ==
    /\ StreamUpdated
    /\ ev.window_size = 2
    /\ Len(ticks) >= 4
    /\ last.res.sma # None
    /\ last.res.ema # last.res.sma
    /\ last.res.sma # Some(last.res.price)

\* C15: for N >= 1 the rsi of the snapshot update returns at tick k is the
\* batch RSI(N) output at position k-1 on the prices of the first k ticks:
\* null where the batch output is null, the same value elsewhere.
C15_StreamRsiIsBatch ==
    (StreamUpdated /\ ev.window_size >= 1) => last.res.rsi = BatchRsiAtTick

\* The last n entries of a sequence, in order (all of them when it has fewer).
LastN(seq, n) == IF Len(seq) <= n THEN seq ELSE SubSeq(seq, Len(seq) - n + 1, Len(seq))

TickPrices == [i \in 1..Len(ticks) |-> ticks[i].price]

TickVolumes == [i \in 1..Len(ticks) |-> ticks[i].volume]

\* C16: after every update the price, volume, gains and losses buffers hold
\* at most window_size entries, and the price and volume buffers hold the
\* most recent min(k, window_size) prices and volumes in arrival order.
C16_BuffersBounded ==
    StreamUpdated =>
        /\ Len(ev.prices) <= ev.window_size
        /\ Len(ev.volumes) <= ev.window_size
        /\ Len(ev.rsi_gains) <= ev.window_size
        /\ Len(ev.rsi_losses) <= ev.window_size
        /\ ev.prices = LastN(TickPrices, ev.window_size)
        /\ ev.volumes = LastN(TickVolumes, ev.window_size)

\* Entries have been evicted from all four buffers.
C16_Witness ==
    /\ StreamUpdated
    /\ ev.window_size = 2
    /\ Len(ticks) = 5
    /\ Len(ev.prices) = 2
    /\ Len(ev.rsi_gains) = 2
    /\ TickPrices[1] # TickPrices[4]
    /\ ev.prices = <<TickPrices[4], TickPrices[5]>>


\* detect_signals has returned, called directly or by process_tick.
Detected ==
    \/ ev.kind = "detector" /\ last.fn = "detect_signals"
    \/ ev.kind = "processor" /\ last.fn = "process_tick"

\* The snapshot the signals of the last call were detected on.
Indicators == IF ev.kind = "detector" THEN ev.indicators ELSE last.values

OfType(signals, types) == SelectSeq(signals, LAMBDA sig : sig.signal_type \in types)

RsiSignals == OfType(last.res, {"Oversold", "Overbought"})

\* strength is in (0, 1]
InUnitLeftOpen(strength) == FGt(strength, F(0)) /\ ~FGt(strength, F(1)) /\ ~IsNaN(strength)

\* C17: for a snapshot with an RSI, RSI < 30 yields exactly one Oversold
\* signal of strength (30-RSI)/30, RSI > 70 exactly one Overbought signal of
\* strength (RSI-70)/30, and 30 <= RSI <= 70 no RSI signal; the strength of an
\* RSI signal is in (0, 1].
C17_RsiThresholdRule ==
    (Detected /\ Indicators.rsi # None) =>
        IF FLt(Indicators.rsi[1], F(30))
        THEN /\ Len(RsiSignals) = 1
             /\ RsiSignals[1].signal_type = "Oversold"
             /\ RsiSignals[1].strength = FDiv(FSub(F(30), Indicators.rsi[1]), F(30))
             /\ InUnitLeftOpen(RsiSignals[1].strength)
        ELSE IF FGt(Indicators.rsi[1], F(70))
        THEN /\ Len(RsiSignals) = 1
             /\ RsiSignals[1].signal_type = "Overbought"
             /\ RsiSignals[1].strength = FDiv(FSub(Indicators.rsi[1], F(70)), F(30))
             /\ InUnitLeftOpen(RsiSignals[1].strength)
        ELSE RsiSignals = <<>>

\* RSI = 25 gives one Oversold signal of strength 5/30.
C17_Witness ==
    /\ ev.kind = "detector"
    /\ last.fn = "detect_signals"
    /\ ev.indicators.rsi = Some(F(25))
    /\ Len(RsiSignals) = 1
    /\ RsiSignals[1].signal_type = "Oversold"
    /\ RsiSignals[1].strength = Norm(5, 30)

SpikeSignals == OfType(last.res, {"VolumeSpike"})

\* C18: a volume ratio above 2.0 yields one VolumeSpike signal of strength
\* min((ratio - 2.0)/3.0, 1.0); a ratio of at most 2.0, or none, yields no
\* VolumeSpike signal.
C18_VolumeSpikeRule ==
    Detected =>
        IF Indicators.volume_ratio # None /\ FGt(Indicators.volume_ratio[1], F(2))
        THEN /\ Len(SpikeSignals) = 1
             /\ SpikeSignals[1].strength =
                   FMin(FDiv(FSub(Indicators.volume_ratio[1], F(2)), F(3)), F(1))
        ELSE SpikeSignals = <<>>

\* C19: every signal detect_signals returns, and every signal process_tick
\* returns and hands to the handlers, has a strength in [0, 1].
C19_StrengthInUnit ==
    Detected =>
        \A i \in 1..Len(last.res) :
            /\ ~IsNaN(last.res[i].strength)
            /\ ~FLt(last.res[i].strength, F(0))
            /\ ~FGt(last.res[i].strength, F(1))

CrossoverSignals == OfType(last.res, {"BullishCrossover", "BearishCrossover"})

\* min(|EMA - SMA| / SMA, 1.0)
RefCrossoverStrength(sma, ema) == FMin(FDiv(FAbs(FSub(ema, sma)), sma), F(1))

\* C20: with an SMA and an EMA in the snapshot, EMA > SMA*1.002 yields one
\* BullishCrossover signal, EMA < SMA*0.998 one BearishCrossover signal and
\* an EMA in [SMA*0.998, SMA*1.002] neither; the strength of the signal is
\* min(|EMA-SMA|/SMA, 1.0).
C20_CrossoverRule ==
    (Detected /\ Indicators.sma # None /\ Indicators.ema # None) =>
        IF FGt(Indicators.ema[1], FMul(Indicators.sma[1], Norm(501, 500)))
        THEN /\ Len(CrossoverSignals) = 1
             /\ CrossoverSignals[1].signal_type = "BullishCrossover"
             /\ CrossoverSignals[1].strength =
                   RefCrossoverStrength(Indicators.sma[1], Indicators.ema[1])
        ELSE IF FLt(Indicators.ema[1], FMul(Indicators.sma[1], Norm(499, 500)))
        THEN /\ Len(CrossoverSignals) = 1
             /\ CrossoverSignals[1].signal_type = "BearishCrossover"
             /\ CrossoverSignals[1].strength =
                   RefCrossoverStrength(Indicators.sma[1], Indicators.ema[1])
        ELSE CrossoverSignals = <<>>

\* An EMA on the upper edge of the dead-band gives no crossover signal.
C20_Witness ==
    /\ ev.kind = "detector"
    /\ last.fn = "detect_signals"
    /\ ev.indicators.sma = Some(F(100))
    /\ ev.indicators.ema = Some(Norm(1002, 10))
    /\ CrossoverSignals = <<>>


\* The signal types of a list of signals, in order.
SignalTypes(signals) == [i \in 1..Len(signals) |-> signals[i].signal_type]

\* The signal type the RSI rule must give on the snapshot ind, if any.
RsiRuleTypes(ind) ==
    IF ind.rsi = None THEN <<>>
    ELSE IF FLt(ind.rsi[1], F(30)) THEN <<"Oversold">>
    ELSE IF FGt(ind.rsi[1], F(70)) THEN <<"Overbought">>
    ELSE <<>>

VolumeRuleTypes(ind) ==
    IF ind.volume_ratio # None /\ FGt(ind.volume_ratio[1], F(2)) THEN <<"VolumeSpike">>
    ELSE <<>>

CrossoverRuleTypes(ind) ==
    IF ind.sma = None \/ ind.ema = None THEN <<>>
    ELSE IF FGt(ind.ema[1], FMul(ind.sma[1], Norm(501, 500))) THEN <<"BullishCrossover">>
    ELSE IF FLt(ind.ema[1], FMul(ind.sma[1], Norm(499, 500))) THEN <<"BearishCrossover">>
    ELSE <<>>

\* C21: the list detect_signals returns holds one signal for each rule whose
\* condition holds on the snapshot and none for the others, in the order RSI,
\* volume spike, crossover: no rule suppresses another.
C21_RulesIndependent ==
    Detected =>
        SignalTypes(last.res) =
            RsiRuleTypes(Indicators) \o VolumeRuleTypes(Indicators)
                \o CrossoverRuleTypes(Indicators)

\* An oversold snapshot with a volume spike and a crossover: three signals.
C21_Witness ==
    /\ ev.kind = "detector"
    /\ last.fn = "detect_signals"
    /\ SignalTypes(last.res) = <<"Oversold", "VolumeSpike", "BearishCrossover">>

\* C22: process_tick updates the indicator state with the tick, detects the
\* signals on the snapshot of that update, and invokes every registered
\* handler once for each signal, signal by signal in the order of detection
\* and, for one signal, handlers in registration order; it returns the
\* signals it delivered, and invokes no handler when there is no handler or
\* no signal.
C22_ProcessTickOrder ==
    [][(ev.kind = "processor" /\ last'.fn = "process_tick") =>
          /\ ev'.indicators = Streaming_update(ev.indicators, last'.tick).st
          /\ last'.values = Streaming_update(ev.indicators, last'.tick).res
          /\ last'.res = Detect_signals(last'.values)
          /\ Len(last'.calls) = Len(last'.res) * Len(ev.signal_handlers)
          /\ \A i \in 1..Len(last'.res) :
                \A j \in 1..Len(ev.signal_handlers) :
                    last'.calls[(i - 1) * Len(ev.signal_handlers) + j] =
                        [handler |-> ev.signal_handlers[j], signal |-> last'.res[i]]]_vars

\* Two handlers and two signals: four handler calls.
C22_Witness ==
    /\ ev.kind = "processor"
    /\ last.fn = "process_tick"
    /\ Len(ev.signal_handlers) = 2
    /\ Len(last.res) = 2
    /\ Len(last.calls) = 4
    /\ last.calls[2].handler = 2
    /\ last.calls[2].signal = last.res[1]
    /\ last.res[1] # last.res[2]

\* ---------------------------------------------------------------------------
\* C24: after any sequence of add_check and set_total_rows calls, repeated
\* add_check calls with one name included, `passed` is true exactly when no
\* entry of `checks` has a failed-row count above zero.
C24_PassedIffNoFailure ==
    ev.kind = "report" =>
        (ev.passed <=> \A n \in DOMAIN ev.checks : ~(ev.checks[n] > 0))

\* ---------------------------------------------------------------------------
\* C25: in the streaming calculator the simple-average seed of avgGain and
\* avgLoss is applied exactly once, at the tick that supplies the N-th price
\* difference, and every later tick updates them by Wilder smoothing with
\* factor 1/N, for every tick sequence, a seeded avgGain of 0 included.
\* Stated for the windows N >= 2 whose price buffer holds the two prices of a
\* difference: from tick N+1 on the averages are the seeded-then-smoothed
\* averages of the tick prices.
C25_StreamSeedOnce ==
    (StreamUpdated /\ ev.window_size >= 2 /\ Len(ticks) >= ev.window_size + 1) =>
        /\ ev.rsi_avg_gain = RefAvg(TickArgs(ev.window_size)[1].slots,
                                    ev.window_size, Len(ticks), TRUE)
        /\ ev.rsi_avg_loss = RefAvg(TickArgs(ev.window_size)[1].slots,
                                    ev.window_size, Len(ticks), FALSE)

\* ---------------------------------------------------------------------------
\* The arguments of the last call with the window-size column replaced by a
\* column that holds the size n on every row.
ConstWindowArgs(n) ==
    <<last.values[1], Int64Array(WsColumn(Len(last.values[2].slots), 0, n, n))>>

ConstWindowResult(n) ==
    IF ev.kind = "sma" THEN Sma_evaluate_all(Sma_new, ConstWindowArgs(n), last.num_rows)
    ELSE IF ev.kind = "ema"
    THEN Ema_evaluate_all(Ema_new, ConstWindowArgs(n), last.num_rows)
    ELSE Rsi_evaluate_all(Rsi_new, ConstWindowArgs(n), last.num_rows)

\* C26: for the SMA, EMA and RSI evaluators the window size used for a whole
\* evaluate_all call is the first non-null entry of the window-size series,
\* wherever it occurs: the call returns, and leaves the evaluator in, what the
\* same prices give with that entry as the window size on every row.
C26_FirstWindowForAllRows ==
    (ev.kind \in {"sma", "ema", "rsi"} /\ last.fn = "evaluate_all"
        /\ last.res.status = "Ok" /\ ~reused) =>
        /\ ev.window_size = N
        /\ last.res = ConstWindowResult(N).res
        /\ ev = ConstWindowResult(N).st

\* A window-size column that starts with 2 and holds 3 on the later rows: the
\* SMA has a value from the second row on.
C26_Witness ==
    /\ BatchOk("sma")
    /\ ~reused
    /\ Len(Prices) >= 3
    /\ last.values[2].slots[1].valid
    /\ last.values[2].slots[1].int = 2
    /\ last.values[2].slots[3].valid
    /\ last.values[2].slots[3].int = 3
    /\ Out[2].valid
    /\ Out[3].valid

\* ---------------------------------------------------------------------------
\* The sum of the volumes of ticks lo..hi.
RECURSIVE RefVolumeSum(_, _)
RefVolumeSum(lo, hi) ==
    IF hi < lo THEN 0 ELSE RefVolumeSum(lo, hi - 1) + ticks[hi].volume

\* The mean of the volumes of the last n ticks.
RefVolumeMean(n) == FDiv(F(RefVolumeSum(Len(ticks) - n + 1, Len(ticks))), F(n))

\* C27: for window size N >= 1 the snapshot update returns has volume_sma
\* present exactly when at least N ticks have been applied, and it is then the
\* mean of the last N volumes; volume_ratio is present exactly when volume_sma
\* is, and is then the tick's volume divided by volume_sma.
C27_VolumeSmaAndRatio ==
    (StreamUpdated /\ ev.window_size >= 1) =>
        IF Len(ticks) < ev.window_size
        THEN /\ last.res.volume_sma = None
             /\ last.res.volume_ratio = None
        ELSE /\ last.res.volume_sma = Some(RefVolumeMean(ev.window_size))
             /\ last.res.volume_ratio =
                   Some(FDiv(F(last.tick.volume), RefVolumeMean(ev.window_size)))

\* Window 2 after a third tick whose volume differs from the one before it:
\* the volume SMA is 4.5 and the ratio is not 1.
C27_Witness ==
    /\ StreamUpdated
    /\ ev.window_size = 2
    /\ Len(ticks) >= 3
    /\ last.res.volume_sma = Some(Norm(9, 2))
    /\ last.res.volume_ratio # None
    /\ last.res.volume_ratio # Some(F(1))

\* ---------------------------------------------------------------------------
\* x is not negative: not below zero in the f64 order.
NonNegative(x) == ~FLt(x, F(0))

\* x is a number that lies in [0, 100].
InPercentRange(x) == ~IsNaN(x) /\ ~FLt(x, F(0)) /\ ~FGt(x, F(100))

\* C29: for every window size N >= 1 and every sequence of finite non-null
\* prices, every non-null RSI the batch evaluator and the streaming calculator
\* produce lies in [0, 100], and avgGain and avgLoss are never negative.
C29_RsiInRange ==
    /\ (BatchOk("rsi") /\ AllValid(Prices) /\ N >= 1) =>
          /\ NonNegative(ev.avg_gain)
          /\ NonNegative(ev.avg_loss)
          /\ \A i \in 1..Len(Out) : Out[i].valid => InPercentRange(Out[i].raw)
    /\ (StreamUpdated /\ ev.window_size >= 1) =>
          /\ NonNegative(ev.rsi_avg_gain)
          /\ NonNegative(ev.rsi_avg_loss)
          /\ last.res.rsi # None => InPercentRange(last.res.rsi[1])

\* A batch partition with a rise and a fall in it: both averages are positive
\* and the last RSI lies strictly between 0 and 100.
C29_Witness ==
    /\ BatchOk("rsi")
    /\ AllValid(Prices)
    /\ N >= 1
    /\ Len(Out) >= 3
    /\ Out[Len(Out)].valid
    /\ FGt(Out[Len(Out)].raw, F(0))
    /\ FLt(Out[Len(Out)].raw, F(100))
    /\ FGt(ev.avg_gain, F(0))
    /\ FGt(ev.avg_loss, F(0))

\* ---------------------------------------------------------------------------
MaDetectedRows == ev.kind = "signal_detector" /\ last.fn = "detect_ma_crossover_signals"

\* The signals emitted for the row with window_start i.
SignalsOfRow(i) == SelectSeq(last.res, LAMBDA s : s.timestamp = i)

AllPresent(row) ==
    row.sma_20.valid /\ row.sma_50.valid /\ row.prev_sma_20.valid /\ row.prev_sma_50.valid

\* prev SMA20 <= prev SMA50 and SMA20 > SMA50.
CrossesUp(row) ==
    /\ ~FGt(row.prev_sma_20.raw, row.prev_sma_50.raw)
    /\ FGt(row.sma_20.raw, row.sma_50.raw)

\* prev SMA20 >= prev SMA50 and SMA20 < SMA50.
CrossesDown(row) ==
    /\ ~FLt(row.prev_sma_20.raw, row.prev_sma_50.raw)
    /\ FLt(row.sma_20.raw, row.sma_50.raw)

RefConfidence(row) ==
    FMin(FDiv(FAbs(FSub(row.sma_20.raw, row.sma_50.raw)), row.close.raw), F(1))

SharedState == ev.kind = "shared"

\* The calculator after the first k ticks of the lock order, applied one at a
\* time to a new calculator of window size w.
RECURSIVE ReplayState(_, _)
ReplayState(w, k) ==
    IF k = 0 THEN Streaming_new(w)
    ELSE Streaming_update(ReplayState(w, k - 1), ticks[k]).st

\* The snapshot update returns for the k-th tick of that order.
ReplayValues(w, k) == Streaming_update(ReplayState(w, k - 1), ticks[k]).res

\* The thread is at the handler calls of its process_tick call.
AtHandlers(t) == ev.threads[t].pc = "updated"

\* C23: a signal handler that fails during process_tick cannot corrupt the
\* evaluator.  When a handler runs, the thread does not hold the lock and its
\* tick has been applied completely (the snapshot is the one of the tick's
\* place in the order of the updates); a panicking handler never poisons the
\* mutex, so no later process_tick call fails at the lock; and once a handler
\* has panicked the state at rest is still the state after the ticks applied
\* so far, so later calls compute what they compute without the failure.
C23_HandlerFailureHarmless ==
    SharedState =>
        /\ ~ev.mutex.poisoned
        /\ \A t \in Threads :
              /\ ev.threads[t].pc # "poisoned"
              /\ AtHandlers(t) =>
                    /\ ev.mutex.holder # t
                    /\ ev.threads[t].values =
                          Some(ReplayValues(ev.indicators.window_size, ev.threads[t].seq))
                    /\ ev.threads[t].seq = Len(ticks) =>
                          ev.indicators =
                             ReplayState(ev.indicators.window_size, ev.threads[t].seq)
        /\ ((\E t \in Threads : ev.threads[t].pc = "panicked") /\ ev.mutex.holder = 0) =>
              ev.indicators = ReplayState(ev.indicators.window_size, Len(ticks))

\* A handler panicked in one thread's call, and a later call of the other
\* thread has been updated, has run its handlers on a signal and has returned.
C23_Witness ==
    /\ SharedState
    /\ last.fn = "handlers"
    /\ \E t \in Threads : ev.threads[t].pc = "panicked" /\ ev.threads[t].seq < last.seq
    /\ ~last.panicked
    /\ Len(last.calls) >= 1

\* ---------------------------------------------------------------------------
\* The thread is inside update.
InUpdate(t) == ev.threads[t].pc \in {"locked", "pushed"}

\* C30: when several threads call process_tick on one processor, each tick's
\* update runs entirely under the mutex: a thread inside update holds the
\* mutex, it starts from the state after all earlier ticks and is the only
\* one to have changed it, and when no thread is inside update the state is
\* the one reached by applying the ticks one at a time in the order of the
\* lock acquisitions.
C30_UpdatesSerialised ==
    SharedState =>
        /\ \A t \in Threads :
              /\ InUpdate(t) => (ev.mutex.holder = t /\ ev.threads[t].seq = Len(ticks))
              /\ ev.threads[t].pc = "locked" =>
                    ev.indicators =
                       ReplayState(ev.indicators.window_size, ev.threads[t].seq - 1)
              /\ ev.threads[t].pc = "pushed" =>
                    ev.indicators =
                       Streaming_push(ReplayState(ev.indicators.window_size,
                                                  ev.threads[t].seq - 1),
                                      ticks[ev.threads[t].seq])
        /\ \A t, u \in Threads : (InUpdate(t) /\ InUpdate(u)) => t = u
        /\ (\A t \in Threads : ~InUpdate(t)) =>
              /\ ev.mutex.holder = 0
              /\ ev.indicators = ReplayState(ev.indicators.window_size, Len(ticks))

\* One thread is between the two halves of update, the state holding a
\* partially applied tick, while the other thread is still in its own
\* process_tick call, about to run its handlers.
C30_Witness ==
    /\ SharedState
    /\ ev.indicators.window_size >= 1
    /\ \E t \in Threads :
          /\ ev.threads[t].pc = "pushed"
          /\ ev.threads[t].seq = 2
          /\ ev.indicators # ReplayState(ev.indicators.window_size, 1)
          /\ ev.indicators # ReplayState(ev.indicators.window_size, 2)
          /\ \E u \in Threads :
                /\ ev.threads[u].pc = "updated"
                /\ ev.threads[u].seq = 1

====
